---- MODULE Spec2Model ----
(***************************************************************************)
(* Model of src/app.py: the AttendanceTracker store (roster, records, JSON *)
(* persistence) and the Flask route handlers that call it.                 *)
(*                                                                         *)
(* app.run() serves every request in a thread of its own and app.py takes  *)
(* no lock, so a handler is a sequence of steps, one per line that reads   *)
(* or writes the shared tracker and one per write that reaches the file,   *)
(* and the steps of two requests interleave.  json.dump(..., indent=2)     *)
(* runs the encoder written in Python: it walks the live records dict and  *)
(* its live buckets and hands the text to the file object chunk by chunk,  *)
(* so it is a sequence of steps too.  A call that runs in C without        *)
(* releasing the interpreter (set.add, list(), jsonify) is one step.       *)
(*                                                                         *)
(* Python values are represented as follows.                               *)
(*   - a str is the sequence of the code points of its characters          *)
(*     (<<32, 65>> is " A");                                               *)
(*   - a JSON payload field is a record [kind, val]: kind is "missing"     *)
(*     (key not in the payload), "str", "int" or "list"; val is the text   *)
(*     of a str and the decimal text of an int;                            *)
(*   - a key of the records dict is [kind, val] with kind "str" or "int"   *)
(*     (the int 5 and the str "5" are different keys of a Python dict);    *)
(*   - a dict is the sequence of its items in insertion order: records     *)
(*     holds [date |-> key, marks |-> bucket], a bucket holds              *)
(*     [student |-> name, status |-> text];                                *)
(*   - the file is [students, records, state, text]: text the characters   *)
(*     in it; state "absent", "doc" (the text is a JSON document, with     *)
(*     students the array and records the object's members in file order,  *)
(*     keyed by the JSON key text) or "partial" (no JSON document);        *)
(*   - a float is held as m * 2^e with m a sequence of bits, most          *)
(*     significant first; a percentage is reported in hundredths           *)
(*     (10000 is 100.0).                                                   *)
(***************************************************************************)
EXTENDS Integers, Sequences, FiniteSets, TLC

VARIABLES
    students,   \* tracker.students: set of names
    records,    \* tracker.records: ordered dict date -> {student: status}
    file,       \* content of attendance.json
    marked,     \* history: what the successful mark_attendance calls wrote
    failures,   \* number of I/O failures injected so far
    nreq,       \* number of requests dispatched so far
    pc,         \* position of each request thread
    req,        \* request of each thread
    loc         \* locals and response of each thread

vars == <<students, records, file, marked, failures, nreq, pc, req, loc>>

\* ------------------------------------------------------------------ bounds
\* I/O failures in a run
MaxFailures == 1
\* requests of a client that waits for each response
MaxRequests == 3
\* requests of clients that do not wait for each other
MaxOverlapping == 2
\* dates of a store given to get_summary
MaxDays == 3

\* ------------------------------------------------------------ value domains
\* the code points str.strip() removes: the characters Python holds for
\* whitespace (str.isspace)
Whitespace ==
    (9..13) \cup (28..32) \cup {133, 160, 5760} \cup (8192..8202)
        \cup {8232, 8233, 8239, 8287, 12288}

Missing == [kind |-> "missing", val |-> <<>>]
NonStr  == [kind |-> "int", val |-> <<>>]
StrV(chars) == [kind |-> "str", val |-> chars]
IntV(ds) == [kind |-> "int", val |-> ds]

NameA == <<65>>
NameB == <<66>>

\* "present", "absent", "late"
StatusPresent == <<112, 114, 101, 115, 101, 110, 116>>
StatusAbsent == <<97, 98, 115, 101, 110, 116>>
StatusLate == <<108, 97, 116, 101>>

\* values a client can send as "name" / "student": no key, a number,
\* "\t\xa0", "\rA " and "B"
NameValues ==
    { Missing, NonStr, StrV(<<9, 160>>), StrV(<<13, 65, 32>>), StrV(NameB) }

\* values a client can send as "status": no key, "absent", "late"
StatusValues == { Missing, StrV(StatusAbsent), StrV(StatusLate) }

\* values a client can send as "date": no key, "5", 5, a list
DateValues ==
    { Missing, StrV(<<53>>), IntV(<<53>>), [kind |-> "list", val |-> <<>>] }

\* date.today().isoformat(): "2024-01-02"
Today == StrV(<<50, 48, 50, 52, 45, 48, 49, 45, 48, 50>>)

Range(s) == { s[i] : i \in DOMAIN s }

\* ------------------------------------------------------------------ strings
RECURSIVE lstrip(_)
lstrip(s) ==
    IF s = <<>> THEN <<>>
    ELSE IF Head(s) \in Whitespace THEN lstrip(Tail(s)) ELSE s

RECURSIVE rstrip(_)
rstrip(s) ==
    IF s = <<>> THEN <<>>
    ELSE IF s[Len(s)] \in Whitespace THEN rstrip(SubSeq(s, 1, Len(s) - 1)) ELSE s

\* str.strip()
strip_identity(s) == s
strip(s) == rstrip(lstrip(s))

\* data.get(key, default)
get(field, default) == IF field.kind = "missing" THEN default ELSE field

\* -------------------------------------------------------------------- dicts
\* self.records: items [date, marks]
HasKey(d, k) == \E i \in DOMAIN d : d[i].date = k

Lookup(d, k) == d[CHOOSE i \in DOMAIN d : d[i].date = k].marks

Keys(d) == { d[i].date : i \in DOMAIN d }

\* d[k] = v on an ordered dict: a new key goes last, an old one keeps its place
SetItem(d, k, v) ==
    IF HasKey(d, k)
    THEN [i \in DOMAIN d |-> IF d[i].date = k THEN [date |-> k, marks |-> v] ELSE d[i]]
    ELSE Append(d, [date |-> k, marks |-> v])

\* a bucket self.records[date_str]: items [student, status]
EmptyMarks == <<>>

HasStudent(b, s) == \E i \in DOMAIN b : b[i].student = s

StatusOf(b, s) == b[CHOOSE i \in DOMAIN b : b[i].student = s].status

\* bucket[student] = status
Put(b, s, v) ==
    IF HasStudent(b, s)
    THEN [i \in DOMAIN b |-> IF b[i].student = s THEN [student |-> s, status |-> v] ELSE b[i]]
    ELSE Append(b, [student |-> s, status |-> v])

\* a bucket and the records as mappings (dict equality ignores order)
MapOf(b) == [s \in { b[i].student : i \in DOMAIN b } |-> StatusOf(b, s)]

AsMap(d) == [k \in Keys(d) |-> MapOf(Lookup(d, k))]

\* f[k] = v on a mapping whose order does not matter
With(f, k, v) == [x \in (DOMAIN f) \cup {k} |-> IF x = k THEN v ELSE f[x]]

\* ---------------------------------------------------------------- json text
\* list(self.students): some enumeration of the set, each element once
ListsOf(S) ==
    { l \in [1..Cardinality(S) -> S] : \A i, j \in 1..Cardinality(S) : l[i] = l[j] => i = j }

\* the concatenation of a sequence of sequences
RECURSIVE Flatten(_)
Flatten(q) ==
    IF q = <<>> THEN <<>>
    ELSE IF Len(q) = 1 THEN q[1]
    ELSE LET h == Len(q) \div 2
         IN  Flatten(SubSeq(q, 1, h)) \o Flatten(SubSeq(q, h + 1, Len(q)))

Spaces(n) == [i \in 1..n |-> 32]

\* newline_indent of the encoder at a nesting level (indent=2)
Indent(level) == <<10>> \o Spaces(2 * level)

\* a hexadecimal digit, lower case
Hex(n) == IF n < 10 THEN 48 + n ELSE 87 + n

\* \uXXXX
Escape4(c) ==
    << 92, 117, Hex(c \div 4096), Hex((c \div 256) % 16), Hex((c \div 16) % 16), Hex(c % 16) >>

\* what the encoder writes for one character of a string (ensure_ascii):
\* \" \\ \n \r \t \f \b, the character itself from " " to "~", \uXXXX
\* otherwise, a surrogate pair above U+FFFF
CharText(c) ==
    IF c = 34 THEN <<92, 34>>
    ELSE IF c = 92 THEN <<92, 92>>
    ELSE IF c = 10 THEN <<92, 110>>
    ELSE IF c = 13 THEN <<92, 114>>
    ELSE IF c = 9 THEN <<92, 116>>
    ELSE IF c = 12 THEN <<92, 102>>
    ELSE IF c = 8 THEN <<92, 98>>
    ELSE IF c >= 32 /\ c <= 126 THEN <<c>>
    ELSE IF c <= 65535 THEN Escape4(c)
    ELSE Escape4(55296 + ((c - 65536) \div 1024)) \o Escape4(56320 + ((c - 65536) % 1024))

\* _encoder(s): the JSON string of a str
Quoted(s) == <<34>> \o Flatten([i \in DOMAIN s |-> CharText(s[i])]) \o <<34>>

\* _key_separator ": " and item_separator "," + newline_indent
KeySep == <<58, 32>>
ItemSep(level) == <<44>> \o Indent(level)

\* "students", "records"
TxtStudents == <<115, 116, 117, 100, 101, 110, 116, 115>>
TxtRecords == <<114, 101, 99, 111, 114, 100, 115>>

\* json.dump of a dict key: a str is written as is, an int as its decimal text
JsonKey(k) == k.val

\* self.records as json.dump writes it: members in dict order, keys as text
DumpRecords(d) == [i \in DOMAIN d |-> [date |-> JsonKey(d[i].date), marks |-> d[i].marks]]

\* The chunks the encoder yields, in order.  _iterencode_list of the roster:
ListChunks(lst) ==
    IF lst = <<>> THEN << <<91, 93>> >>
    ELSE [i \in DOMAIN lst |->
             (IF i = 1 THEN <<91>> \o Indent(2) ELSE ItemSep(2)) \o Quoted(lst[i])]
         \o << Indent(1), <<93>> >>

\* the document up to the value of "records"
HeaderChunks(lst) ==
    << <<123>>, Indent(1), Quoted(TxtStudents), KeySep >> \o ListChunks(lst)
        \o << ItemSep(1), Quoted(TxtRecords), KeySep >>

\* _iterencode_dict of the records: opening, one date, closing
RecordsOpen(ms) == IF ms = <<>> THEN << <<123, 125>> >> ELSE << <<123>>, Indent(2) >>
DateChunks(key, first) == (IF first THEN <<>> ELSE << ItemSep(2) >>) \o << Quoted(key), KeySep >>
RecordsClose == << Indent(1), <<125>> >>

\* _iterencode_dict of a bucket: opening, one member, closing
BucketOpen(b) == IF b = <<>> THEN << <<123, 125>> >> ELSE << <<123>>, Indent(3) >>
MemberChunks(m, first) ==
    (IF first THEN <<>> ELSE << ItemSep(3) >>) \o << Quoted(m.student), KeySep, Quoted(m.status) >>
BucketClose == << Indent(2), <<125>> >>

\* the end of the document
DocClose == << Indent(0), <<125>> >>

BucketChunks(b) ==
    BucketOpen(b)
        \o (IF b = <<>> THEN <<>>
            ELSE Flatten([k \in DOMAIN b |-> MemberChunks(b[k], k = 1)]) \o BucketClose)

\* all chunks of json.dump({"students": lst, "records": ms}, f, indent=2)
DocChunks(lst, ms) ==
    HeaderChunks(lst) \o RecordsOpen(ms)
        \o (IF ms = <<>> THEN <<>>
            ELSE Flatten([i \in DOMAIN ms |->
                     DateChunks(ms[i].date, i = 1) \o BucketChunks(ms[i].marks)])
                 \o RecordsClose)
        \o DocClose

\* the text of the document
DocText(lst, ms) == Flatten(DocChunks(lst, ms))

\* --------------------------------------------------------------------- file
\* no file
Absent == [students |-> <<>>, records |-> <<>>, state |-> "absent", text |-> <<>>]

\* characters that are no JSON document (none: a file just truncated)
Partial(chars) == [students |-> <<>>, records |-> <<>>, state |-> "partial", text |-> chars]

\* the file that holds json.dump of {"students": lst, "records": d}
json_dump(lst, d) ==
    [students |-> lst, records |-> DumpRecords(d), state |-> "doc",
     text |-> DocText(lst, DumpRecords(d))]

\* TextIOWrapper._CHUNK_SIZE, and the size open() gives the BufferedWriter:
\* st_blksize of the file system
ChunkSize == 8192
BufferSize == 4096

\* A file object opened with "w": pos characters are in the file; out holds
\* the characters written to the object that are not in the file yet, in
\* order: those of the writes to the file that are due (their lengths in
\* raws), then nbuf in the BufferedWriter, then npend in the TextIOWrapper.
NoFile == [pos |-> 0, raws |-> <<>>, nbuf |-> 0, npend |-> 0, out |-> <<>>]

\* BufferedWriter.write of n characters
buffer_write(fd, n) ==
    IF n <= BufferSize - fd.nbuf THEN [fd EXCEPT !.nbuf = @ + n]
    ELSE [fd EXCEPT !.raws = @ \o (IF fd.nbuf > 0 THEN << fd.nbuf >> ELSE <<>>)
                               \o (IF n > BufferSize THEN << n >> ELSE <<>>),
                    !.nbuf = IF n > BufferSize THEN 0 ELSE n]

\* TextIOWrapper hands its pending characters to the BufferedWriter
text_flush(fd) ==
    IF fd.npend > 0 THEN buffer_write([fd EXCEPT !.npend = 0], fd.npend) ELSE fd

\* fp.write(chunk)
fp_write(fd, chunk) ==
    LET f1 == IF fd.npend > 0 /\ fd.npend + Len(chunk) > ChunkSize THEN text_flush(fd) ELSE fd
        f2 == [f1 EXCEPT !.npend = @ + Len(chunk), !.out = @ \o chunk]
    IN  IF f2.npend >= ChunkSize THEN text_flush(f2) ELSE f2

\* for chunk in iterable: fp.write(chunk)
RECURSIVE write_all(_, _)
write_all(fd, chunks) ==
    IF chunks = <<>> THEN fd
    ELSE fp_write(write_all(fd, SubSeq(chunks, 1, Len(chunks) - 1)), chunks[Len(chunks)])

\* fp.close() at the end of the with block: everything becomes due
fp_close(fd) ==
    LET f1 == text_flush(fd)
    IN  [f1 EXCEPT !.raws = @ \o (IF f1.nbuf > 0 THEN << f1.nbuf >> ELSE <<>>), !.nbuf = 0]

\* the text of a file after a write of data at offset at (a gap reads as NUL)
Overwrite(old, at, data) ==
    (IF at <= Len(old) THEN SubSeq(old, 1, at)
     ELSE old \o [i \in 1..(at - Len(old)) |-> 0])
        \o data \o SubSeq(old, at + Len(data) + 1, Len(old))

\* the file after a thread with locals L writes data at offset at: it holds a
\* document when the text is all of what the thread's json.dump produced
raw_write(f, at, data, L) ==
    LET new == Overwrite(f.text, at, data)
    IN  IF L.complete /\ new = DocText(L.lst, L.enc)
        THEN [students |-> L.lst, records |-> L.enc, state |-> "doc", text |-> new]
        ELSE IF new = f.text THEN f
        ELSE Partial(new)

\* json.load of the "records" object: every key is a str; a repeated key keeps
\* the last value
RECURSIVE LoadRecords(_)
LoadRecords(ms) ==
    IF ms = <<>> THEN <<>>
    ELSE LET n == Len(ms)
         IN SetItem(LoadRecords(SubSeq(ms, 1, n - 1)), StrV(ms[n].date), ms[n].marks)

\* load_from_file: ok = FALSE when json.load raises
load_from_file(f) ==
    CASE f.state = "absent"  -> [students |-> {}, records |-> <<>>, ok |-> TRUE]
      [] f.state = "partial" -> [students |-> {}, records |-> <<>>, ok |-> FALSE]
      [] f.state = "doc"     -> [students |-> Range(f.students),
                                 records |-> LoadRecords(f.records), ok |-> TRUE]

\* jsonify(tracker.records) as the client reads it: json.dumps(sort_keys=True)
\* raises TypeError when it has to order an int key and a str key, and writes
\* every key as text
jsonify_records(d) ==
    IF \E i, j \in DOMAIN d : d[i].date.kind # d[j].date.kind
    THEN [ok |-> FALSE, value |-> <<>>]
    ELSE [ok |-> TRUE,
          value |-> [k \in { JsonKey(x) : x \in Keys(d) } |->
                        MapOf(Lookup(d, CHOOSE x \in Keys(d) : JsonKey(x) = k))]]


\* ------------------------------------------------------------------- floats
\* A natural number is a sequence of bits, most significant first; division
\* and multiplication work on its digits in base 1024 (ten bits each).
RECURSIVE Bits(_)
Bits(n) == IF n = 0 THEN <<>> ELSE Append(Bits(n \div 2), n % 2)

Zeros(k) == [i \in 1..k |-> 0]

\* a sequence of bits without its leading zeros
Norm(nb) ==
    IF \A i \in DOMAIN nb : nb[i] = 0 THEN <<>>
    ELSE SubSeq(nb, CHOOSE i \in DOMAIN nb : nb[i] = 1 /\ \A j \in 1..(i - 1) : nb[j] = 0,
                Len(nb))

\* the number ten bits stand for
Val10(w) ==
    512 * w[1] + 256 * w[2] + 128 * w[3] + 64 * w[4] + 32 * w[5]
        + 16 * w[6] + 8 * w[7] + 4 * w[8] + 2 * w[9] + w[10]

\* the bits of a number below 1024
Bits10(n) ==
    << (n \div 512) % 2, (n \div 256) % 2, (n \div 128) % 2, (n \div 64) % 2,
       (n \div 32) % 2, (n \div 16) % 2, (n \div 8) % 2, (n \div 4) % 2,
       (n \div 2) % 2, n % 2 >>

\* the base-1024 digits of a sequence of bits
ToDigits(tb) ==
    LET n == (Len(tb) + 9) \div 10
        padded == Zeros(10 * n - Len(tb)) \o tb
    IN  [g \in 1..n |-> Val10(SubSeq(padded, 10 * (g - 1) + 1, 10 * g))]

\* the bits of a sequence of base-1024 digits
FromDigits(ds) ==
    [b \in 1..(10 * Len(ds)) |-> Bits10(ds[((b - 1) \div 10) + 1])[((b - 1) % 10) + 1]]

\* the number a sequence of at most thirty bits stands for
Val(vb) ==
    LET ds == ToDigits(vb)
    IN  IF ds = <<>> THEN 0
        ELSE IF Len(ds) = 1 THEN ds[1]
        ELSE IF Len(ds) = 2 THEN 1024 * ds[1] + ds[2]
        ELSE 1048576 * ds[Len(ds) - 2] + 1024 * ds[Len(ds) - 1] + ds[Len(ds)]

\* a sequence of bits plus one
Inc(ib) ==
    IF \A i \in DOMAIN ib : ib[i] = 1 THEN <<1>> \o Zeros(Len(ib))
    ELSE LET z == CHOOSE i \in DOMAIN ib : ib[i] = 0 /\ \A j \in (i + 1)..Len(ib) : ib[j] = 1
         IN  [i \in DOMAIN ib |-> IF i < z THEN ib[i] ELSE IF i = z THEN 1 ELSE 0]

\* long division of digits by t (t < 2^21): quotient digits and remainder
RECURSIVE DigitsDiv(_, _)
DigitsDiv(dd, t) ==
    IF dd = <<>> THEN [q |-> <<>>, r |-> 0]
    ELSE LET prev == DigitsDiv(SubSeq(dd, 1, Len(dd) - 1), t)
             v == 1024 * prev.r + dd[Len(dd)]
         IN  [q |-> Append(prev.q, v \div t), r |-> v % t]

\* long division of a sequence of bits by t: quotient bits and remainder
LongDiv(db, t) ==
    LET d == DigitsDiv(ToDigits(db), t)
    IN  [q |-> FromDigits(d.q), r |-> d.r]

\* digits times m (m < 2^21) plus carry: as many digits, and the carry out
RECURSIVE DigitsMul(_, _, _)
DigitsMul(md, m, carry) ==
    IF md = <<>> THEN [carry |-> carry, digits |-> <<>>]
    ELSE LET v == md[Len(md)] * m + carry
             high == DigitsMul(SubSeq(md, 1, Len(md) - 1), m, v \div 1024)
         IN  [carry |-> high.carry, digits |-> Append(high.digits, v % 1024)]

\* a sequence of bits times m
MulBits(xb, m) ==
    LET prod == DigitsMul(ToDigits(xb), m, 0)
    IN  Bits(prod.carry) \o FromDigits(prod.digits)

\* the leading `keep` bits of a sequence, rounded to nearest, ties to even;
\* sticky tells that non-zero bits follow the sequence
RoundBits(rb, keep, sticky) ==
    IF Len(rb) <= keep THEN rb
    ELSE LET kept == SubSeq(rb, 1, keep)
             rest == SubSeq(rb, keep + 1, Len(rb))
             half == rest[1] = 1
             st == sticky \/ (\E i \in 2..Len(rest) : rest[i] = 1)
             odd == keep > 0 /\ kept[keep] = 1
         IN  IF half /\ (st \/ odd) THEN Inc(kept) ELSE kept

\* the double p / t, for p >= 1
float_div(p, t) ==
    LET K == 53 + Len(Bits(t))
        d == LongDiv(Bits(p) \o Zeros(K), t)
        q == Norm(d.q)
    IN  [m |-> RoundBits(q, 53, d.r # 0), e |-> (Len(q) - 53) - K]

\* the double x * 100
float_mul100(x) ==
    LET P == Norm(MulBits(x.m, 100))
    IN  IF Len(P) <= 53 THEN [m |-> P, e |-> x.e]
        ELSE [m |-> RoundBits(P, 53, FALSE), e |-> x.e + (Len(P) - 53)]

\* round(x, 2) of the double x = num / den * 100, as an integer number of
\* hundredths: the decimal nearest to the double's exact value, ties to even
\* (x is below 2^52, so its exponent is negative)
round2(num, den) ==
    IF num = 0 THEN 0
    ELSE LET y == float_mul100(float_div(num, den))
             P == Norm(MulBits(y.m, 100))
             shift == -y.e
             padded == IF Len(P) < shift + 1 THEN Zeros(shift + 1 - Len(P)) \o P ELSE P
         IN  Val(RoundBits(padded, Len(padded) - shift, FALSE))

\* ----------------------------------------------------------- AttendanceTracker
\* self.students.add(name)
tracker_add_student(studs, name) == studs \cup {name}

\* date_records.get(student) == 'present'
IsPresent(b, student) == HasStudent(b, student) /\ StatusOf(b, student) = StatusPresent

\* total_days = len(self.records)
days_with_entry(d, student) == Cardinality({ i \in DOMAIN d : HasStudent(d[i].marks, student) })
total_days(d, student) == Len(d)

\* percentage, in hundredths of a percent (10000 is 100.0)
percentage(present, total) == IF total > 0 THEN round2(present, total) ELSE 0

\* --------------------------------------------------------------- handlers
MsgEmpty    == "Student name cannot be empty"
MsgExists   == "Student already exists"
MsgAdded    == "Successfully added student"
MsgNotFound == "Student not found"
MsgStatus   == "Status must be present or absent"
MsgMarked   == "Marked"
MsgError    == "Error"
MsgDictChanged == "Error: dictionary changed size during iteration"
MsgSetChanged  == "Error: Set changed size during iteration"

NoResult == <<>>

\* `not name`
is_empty(name) == name = <<>>

\* `name in tracker.students` of add_student
never_exists(name, studs) == FALSE
already_exists(name, studs) == name \in studs

\* `student not in tracker.students` of mark_attendance
never_unknown(student, studs) == FALSE
not_found(student, studs) == student \notin studs

\* `status not in ['present', 'absent']`
status_never_invalid(status) == FALSE
status_invalid(status) ==
    ~(status.kind = "str" /\ status.val \in {StatusPresent, StatusAbsent})

\* `date_str not in self.records` raises TypeError for an unhashable date
hashable(d) == d.kind \in {"str", "int"}

Request(op, n, st, d) == [date |-> d, status |-> st, name |-> n, op |-> op]

NoRequest == Request("none", Missing, Missing, Missing)

\* the requests a client can send
Requests ==
    { Request("add_student", n, Missing, Missing) : n \in NameValues }
    \cup { Request("mark_attendance", n, st, d) :
              n \in NameValues, st \in StatusValues, d \in DateValues }
    \cup { Request(op, Missing, Missing, Missing) :
              op \in {"get_students", "get_summary", "get_records"} }

\* two requests can be in service at a time
Threads == {1, 2}

\* a reference to a bucket: the bucket of the records under that date while
\* live, and otherwise a bucket the records no longer hold, with its content
NoRef == [date |-> Missing, marks |-> <<>>, live |-> FALSE]

\* the locals of a handler and, once it has returned, its response
NoLocals ==
    [i |-> 0, k |-> 0, j |-> 0, lst |-> <<>>, fd |-> NoFile, complete |-> FALSE,
     enc |-> <<>>, present |-> 0, total |-> 0, absent |-> FALSE, err |-> FALSE,
     closing |-> FALSE, ref |-> NoRef, dn |-> 0, bn |-> 0, order |-> <<>>, summary |-> <<>>,
     saved |-> FALSE, success |-> FALSE, message |-> "", result |-> NoResult]

\* tracker = AttendanceTracker() with attendance.json as it is found
InitFrom(f) ==
    /\ students = load_from_file(f).students
    /\ records = load_from_file(f).records
    /\ file = f
    /\ marked = [p \in {} |-> StatusPresent]
    /\ failures = 0
    /\ nreq = 0
    /\ pc = [t \in Threads |-> "idle"]
    /\ req = [t \in Threads |-> NoRequest]
    /\ loc = [t \in Threads |-> NoLocals]

\* the files the program can be started with: none, or the file an earlier
\* run left after adding B and A
InitialFiles == { Absent, json_dump(<<NameB, NameA>>, <<>>) }

Init == \E f \in InitialFiles : InitFrom(f)

\* a first start: no attendance.json
InitEmpty == InitFrom(Absent)

ThreadName(t) == strip(get(req[t].name, StrV(<<>>)).val)
ThreadStatus(t) == get(req[t].status, StrV(StatusPresent))
ThreadDate(t) == get(req[t].date, Today)

Free(t) == pc[t] \in {"idle", "done"}

Goto(t, label) == pc' = [pc EXCEPT ![t] = label]

\* the handler returns: only the response is kept
Respond(t, ok, msg, result) ==
    /\ loc' = [loc EXCEPT ![t] = [NoLocals EXCEPT !.success = ok, !.message = msg,
                                                  !.saved = loc[t].saved,
                                                  !.result = result]]
    /\ Goto(t, "done")

\* the server hands a request of R to a thread (the first free one), up to
\* max requests
DispatchOf(t, R, max) ==
    /\ Free(t)
    /\ \A u \in Threads : u < t => ~Free(u)
    /\ nreq < max
    /\ nreq' = nreq + 1
    /\ \E r \in R :
          /\ req' = [req EXCEPT ![t] = r]
          /\ Goto(t, IF r.op \in {"add_student", "mark_attendance"} THEN "validate" ELSE r.op)
    /\ loc' = [loc EXCEPT ![t] = NoLocals]
    /\ UNCHANGED <<students, records, file, marked, failures>>

Dispatch(t) == DispatchOf(t, Requests, MaxOverlapping)

DispatchSerial(t) == DispatchOf(t, Requests, MaxRequests)

\* add_student handler: the checks before tracker.add_student
ValidateAdd(t) ==
    /\ pc[t] = "validate"
    /\ req[t].op = "add_student"
    /\ IF req[t].name.kind = "int" THEN Respond(t, FALSE, MsgError, NoResult)
       ELSE IF is_empty(ThreadName(t)) THEN Respond(t, FALSE, MsgEmpty, NoResult)
       ELSE IF already_exists(ThreadName(t), students) THEN Respond(t, FALSE, MsgExists, NoResult)
       ELSE Goto(t, "add") /\ UNCHANGED loc
    /\ UNCHANGED <<students, records, file, marked, failures, nreq, req>>

\* mark_attendance handler: the checks before tracker.mark_attendance
ValidateMark(t) ==
    /\ pc[t] = "validate"
    /\ req[t].op = "mark_attendance"
    /\ IF req[t].name.kind = "int" THEN Respond(t, FALSE, MsgError, NoResult)
       ELSE IF is_empty(ThreadName(t)) THEN Respond(t, FALSE, MsgEmpty, NoResult)
       ELSE IF not_found(ThreadName(t), students) THEN Respond(t, FALSE, MsgNotFound, NoResult)
       ELSE IF status_invalid(ThreadStatus(t)) THEN Respond(t, FALSE, MsgStatus, NoResult)
       ELSE Goto(t, "test") /\ UNCHANGED loc
    /\ UNCHANGED <<students, records, file, marked, failures, nreq, req>>

\* self.students.add(name)
AddToRoster(t) ==
    /\ pc[t] = "add"
    /\ students' = tracker_add_student(students, ThreadName(t))
    /\ Goto(t, "open")
    /\ UNCHANGED <<records, file, marked, failures, nreq, req, loc>>

\* if date_str not in self.records: (TypeError for an unhashable date)
TestBucket(t) ==
    /\ pc[t] = "test"
    /\ IF ~hashable(ThreadDate(t)) THEN Respond(t, FALSE, MsgError, NoResult)
       ELSE /\ loc' = [loc EXCEPT ![t].absent = ~HasKey(records, ThreadDate(t))]
            /\ Goto(t, IF loc'[t].absent THEN "bucket" ELSE "set")
    /\ UNCHANGED <<students, records, file, marked, failures, nreq, req>>

\* the bucket a thread refers to
BucketOf(t) == IF loc[t].ref.live THEN Lookup(records, loc[t].ref.date) ELSE loc[t].ref.marks

\* self.records[date_str] = {}: a thread that refers to the bucket the date
\* had keeps that bucket
NewBucket(t) ==
    /\ pc[t] = "bucket"
    /\ records' = SetItem(records, ThreadDate(t), EmptyMarks)
    /\ loc' = [u \in Threads |->
                  IF loc[u].ref.live /\ loc[u].ref.date = ThreadDate(t)
                  THEN [loc[u] EXCEPT !.ref = [date |-> ThreadDate(t),
                                               marks |-> Lookup(records, ThreadDate(t)),
                                               live |-> FALSE]]
                  ELSE loc[u]]
    /\ Goto(t, "set")
    /\ UNCHANGED <<students, file, marked, failures, nreq, req>>

\* self.records[date_str][student] = status
SetStatus(t) ==
    /\ pc[t] = "set"
    /\ records' = SetItem(records, ThreadDate(t),
                          Put(Lookup(records, ThreadDate(t)), ThreadName(t), ThreadStatus(t).val))
    /\ Goto(t, "open")
    /\ UNCHANGED <<students, file, marked, failures, nreq, req, loc>>

\* save_to_file: open(self.filename, "w") truncates the file, or raises
OpenFile(t) ==
    /\ pc[t] = "open"
    /\ \/ /\ file' = Partial(<<>>)
          /\ loc' = [loc EXCEPT ![t].saved = TRUE, ![t].fd = NoFile]
          /\ Goto(t, "list")
          /\ UNCHANGED failures
       \/ /\ failures < MaxFailures
          /\ failures' = failures + 1
          /\ file' = file
          /\ loc' = [loc EXCEPT ![t] = [NoLocals EXCEPT !.saved = TRUE, !.message = MsgError]]
          /\ Goto(t, "done")
    /\ UNCHANGED <<students, records, marked, nreq, req>>

\* list(self.students)
ListStudents(t) ==
    /\ pc[t] = "list"
    /\ \E lst \in ListsOf(students) : loc' = [loc EXCEPT ![t].lst = lst]
    /\ Goto(t, "encode")
    /\ UNCHANGED <<students, records, file, marked, failures, nreq, req>>

\* the locals L after fp.write of each of the chunks
Emit(L, chunks) == [L EXCEPT !.fd = write_all(L.fd, chunks)]

\* a write to the file is due
Busy(t) == loc[t].fd.raws # <<>>

\* the locals after the first write that is due, and the file after it
Drained(L, fd) ==
    [L EXCEPT !.fd = [fd EXCEPT !.pos = @ + Head(fd.raws), !.raws = Tail(@),
                                !.out = SubSeq(@, Head(fd.raws) + 1, Len(@))]]

DrainedFile(L, fd) == raw_write(file, fd.pos, SubSeq(fd.out, 1, Head(fd.raws)), L)

\* the BufferedWriter writes to the file while json.dump runs
Drain(t) ==
    /\ file' = DrainedFile(loc[t], loc[t].fd)
    /\ loc' = [loc EXCEPT ![t] = Drained(loc[t], loc[t].fd)]
    /\ UNCHANGED pc

\* json.dump: the chunks up to the value of "records" (the data dict and the
\* list are the thread's own)
Encode(t) ==
    /\ pc[t] = "encode"
    /\ loc' = [loc EXCEPT ![t] = Emit(loc[t], HeaderChunks(loc[t].lst))]
    /\ Goto(t, "enc_records")
    /\ UNCHANGED <<students, records, file, marked, failures, nreq, req>>

\* _iterencode_dict(self.records): `if not dct`
EncodeRecords(t) ==
    /\ pc[t] = "enc_records"
    /\ IF Busy(t) THEN Drain(t)
       ELSE /\ file' = file
            /\ IF records = <<>>
               THEN /\ loc' = [loc EXCEPT ![t] = Emit([loc[t] EXCEPT !.complete = TRUE],
                                                      RecordsOpen(<<>>) \o DocClose)]
                    /\ Goto(t, "close")
               ELSE /\ loc' = [loc EXCEPT ![t] = Emit(loc[t], RecordsOpen(records))]
                    /\ Goto(t, "enc_dates")
    /\ UNCHANGED <<students, records, marked, failures, nreq, req>>

\* `for key, value in items` on self.records: RuntimeError when the dict
\* changed size since the loop began; the next date and its key, or the end
\* of the records and of the document
EncodeDate(t) ==
    /\ pc[t] = "enc_dates"
    /\ IF Busy(t) THEN Drain(t)
       ELSE /\ file' = file
            /\ LET size == IF loc[t].j = 0 THEN Len(records) ELSE loc[t].dn
               IN  IF Len(records) # size
                   THEN /\ loc' = [loc EXCEPT ![t].err = TRUE]
                        /\ Goto(t, "close")
                   ELSE IF loc[t].j >= size
                   THEN /\ loc' = [loc EXCEPT ![t] = Emit([loc[t] EXCEPT !.complete = TRUE],
                                                          RecordsClose \o DocClose)]
                        /\ Goto(t, "close")
                   ELSE /\ loc' = [loc EXCEPT ![t] =
                              Emit([loc[t] EXCEPT
                                       !.j = @ + 1, !.dn = size, !.k = 0, !.bn = 0,
                                       !.ref = [date |-> records[loc[t].j + 1].date,
                                                marks |-> <<>>, live |-> TRUE],
                                       !.enc = Append(@, [date |-> JsonKey(records[loc[t].j + 1].date),
                                                          marks |-> <<>>])],
                                   DateChunks(JsonKey(records[loc[t].j + 1].date), loc[t].j = 0))]
                        /\ Goto(t, "enc_bucket")
    /\ UNCHANGED <<students, records, marked, failures, nreq, req>>

\* _iterencode_dict(bucket): `if not dct`
EncodeBucket(t) ==
    /\ pc[t] = "enc_bucket"
    /\ IF Busy(t) THEN Drain(t)
       ELSE /\ file' = file
            /\ IF BucketOf(t) = <<>>
               THEN /\ loc' = [loc EXCEPT ![t] = Emit([loc[t] EXCEPT !.ref = NoRef],
                                                      BucketOpen(<<>>))]
                    /\ Goto(t, "enc_dates")
               ELSE /\ loc' = [loc EXCEPT ![t] = Emit(loc[t], BucketOpen(BucketOf(t)))]
                    /\ Goto(t, "enc_members")
    /\ UNCHANGED <<students, records, marked, failures, nreq, req>>

\* `for key, value in items` on the bucket: RuntimeError when it changed size
\* since the loop began; the next member, or the end of the bucket
EncodeMember(t) ==
    /\ pc[t] = "enc_members"
    /\ IF Busy(t) THEN Drain(t)
       ELSE /\ file' = file
            /\ LET size == IF loc[t].k = 0 THEN Len(BucketOf(t)) ELSE loc[t].bn
               IN  IF Len(BucketOf(t)) # size
                   THEN /\ loc' = [loc EXCEPT ![t].err = TRUE, ![t].ref = NoRef]
                        /\ Goto(t, "close")
                   ELSE IF loc[t].k >= size
                   THEN /\ loc' = [loc EXCEPT ![t] =
                              Emit([loc[t] EXCEPT !.ref = NoRef, !.k = 0, !.bn = 0], BucketClose)]
                        /\ Goto(t, "enc_dates")
                   ELSE /\ loc' = [loc EXCEPT ![t] =
                              Emit([loc[t] EXCEPT
                                       !.k = @ + 1, !.bn = size,
                                       !.enc = [@ EXCEPT ![Len(loc[t].enc)].marks =
                                                   Append(@, BucketOf(t)[loc[t].k + 1])]],
                                   MemberChunks(BucketOf(t)[loc[t].k + 1], loc[t].k = 0))]
                        /\ UNCHANGED pc
    /\ UNCHANGED <<students, records, marked, failures, nreq, req>>

\* the handler returns after save_to_file: the error json.dump raised, or
\* success
Finish(t) ==
    IF loc[t].err
    THEN Respond(t, FALSE, MsgDictChanged, NoResult) /\ UNCHANGED marked
    ELSE /\ Respond(t, TRUE, IF req[t].op = "add_student" THEN MsgAdded ELSE MsgMarked,
                    NoResult)
         /\ marked' = IF req[t].op = "mark_attendance"
                      THEN With(marked, <<ThreadDate(t), ThreadName(t)>>, ThreadStatus(t).val)
                      ELSE marked

\* leaving the `with` block closes the file object: what it holds is written
\* to the file, one write a step, or the flush raises; then the handler
\* returns
CloseFile(t) ==
    /\ pc[t] = "close"
    /\ \/ /\ LET fd == IF loc[t].closing THEN loc[t].fd ELSE fp_close(loc[t].fd)
             IN  IF fd.raws = <<>>
                 THEN file' = file /\ Finish(t)
                 ELSE /\ file' = DrainedFile(loc[t], fd)
                      /\ IF Len(fd.raws) = 1
                         THEN Finish(t)
                         ELSE /\ loc' = [loc EXCEPT ![t] =
                                    [Drained(loc[t], fd) EXCEPT !.closing = TRUE]]
                              /\ UNCHANGED <<pc, marked>>
          /\ UNCHANGED failures
       \/ /\ ~loc[t].closing
          /\ failures < MaxFailures
          /\ failures' = failures + 1
          /\ file' = file
          /\ Respond(t, FALSE, MsgError, NoResult)
          /\ UNCHANGED marked
    /\ UNCHANGED <<students, records, nreq, req>>

\* GET /get_students
GetStudents(t) ==
    /\ pc[t] = "get_students"
    /\ \E lst \in ListsOf(students) : Respond(t, TRUE, "", lst)
    /\ UNCHANGED <<students, records, file, marked, failures, nreq, req>>

\* GET /get_records
GetRecords(t) ==
    /\ pc[t] = "get_records"
    /\ LET body == jsonify_records(records)
       IN  IF body.ok THEN Respond(t, TRUE, "", body.value)
           ELSE Respond(t, FALSE, MsgError, NoResult)
    /\ UNCHANGED <<students, records, file, marked, failures, nreq, req>>

\* the student of the loop of get_summary
Current(t) == loc[t].order[loc[t].i]

\* get_summary: summary = {}, then `for student in self.students:` the set
\* is enumerated in some order; RuntimeError when it changed size since the
\* loop began; present_days = 0 for the next student; after the last one the
\* handler returns the summary
SummaryStudent(t) ==
    /\ pc[t] \in {"get_summary", "student"}
    /\ \E order \in (IF pc[t] = "get_summary" THEN ListsOf(students) ELSE {loc[t].order}) :
          IF Cardinality(students) # Len(order)
          THEN Respond(t, FALSE, MsgSetChanged, NoResult)
          ELSE IF (IF pc[t] = "get_summary" THEN 0 ELSE loc[t].i) >= Len(order)
          THEN Respond(t, TRUE, "", IF pc[t] = "get_summary" THEN [s \in {} |-> 0]
                                    ELSE loc[t].summary)
          ELSE /\ loc' = [loc EXCEPT
                     ![t].order = order,
                     ![t].i = IF pc[t] = "get_summary" THEN 1 ELSE @ + 1,
                     ![t].summary = IF pc[t] = "get_summary" THEN [s \in {} |-> 0] ELSE @,
                     ![t].present = 0]
               /\ Goto(t, "total")
    /\ UNCHANGED <<students, records, file, marked, failures, nreq, req>>

\* total_days = len(self.records)
SummaryTotal(t) ==
    /\ pc[t] = "total"
    /\ loc' = [loc EXCEPT ![t].total = total_days(records, Current(t)), ![t].j = 0]
    /\ Goto(t, "date")
    /\ UNCHANGED <<students, records, file, marked, failures, nreq, req>>

\* `for date_records in self.records.values():` RuntimeError when the dict
\* changed size since the loop began; the next bucket; after the last one the
\* student's entry is stored
SummaryDate(t) ==
    /\ pc[t] = "date"
    /\ LET size == IF loc[t].j = 0 THEN Len(records) ELSE loc[t].dn
       IN  IF Len(records) # size
           THEN Respond(t, FALSE, MsgDictChanged, NoResult)
           ELSE IF loc[t].j >= size
           THEN /\ loc' = [loc EXCEPT
                      ![t].summary = With(loc[t].summary, Current(t),
                          [percentage |-> percentage(loc[t].present, loc[t].total),
                           present |-> loc[t].present, total |-> loc[t].total]),
                      ![t].j = 0, ![t].dn = 0, ![t].present = 0, ![t].total = 0]
                /\ Goto(t, "student")
           ELSE /\ loc' = [loc EXCEPT
                      ![t].ref = [date |-> records[loc[t].j + 1].date, marks |-> <<>>,
                                  live |-> TRUE],
                      ![t].j = @ + 1, ![t].dn = size]
                /\ Goto(t, "status")
    /\ UNCHANGED <<students, records, file, marked, failures, nreq, req>>

\* if date_records.get(student) == 'present': present_days += 1
SummaryGet(t) ==
    /\ pc[t] = "status"
    /\ loc' = [loc EXCEPT
          ![t].present = @ + (IF IsPresent(BucketOf(t), Current(t)) THEN 1 ELSE 0),
          ![t].ref = NoRef]
    /\ Goto(t, "date")
    /\ UNCHANGED <<students, records, file, marked, failures, nreq, req>>

\* AttendanceTracker(): a second store constructed from the file as it is,
\* while no request is in service
LoadFresh(t) ==
    /\ \A u \in Threads : Free(u)
    /\ nreq < MaxRequests
    /\ nreq' = nreq + 1
    /\ req' = [req EXCEPT ![t] = Request("load", Missing, Missing, Missing)]
    /\ LET fresh == load_from_file(file)
       IN  loc' = [loc EXCEPT ![t] = [NoLocals EXCEPT !.success = fresh.ok, !.result = fresh]]
    /\ Goto(t, "done")
    /\ UNCHANGED <<students, records, file, marked, failures>>

\* the threaded server
Next ==
    \E t \in Threads :
        \/ Dispatch(t)
        \/ ValidateAdd(t)
        \/ ValidateMark(t)
        \/ AddToRoster(t)
        \/ TestBucket(t)
        \/ NewBucket(t)
        \/ SetStatus(t)
        \/ OpenFile(t)
        \/ ListStudents(t)
        \/ Encode(t)
        \/ EncodeRecords(t)
        \/ EncodeDate(t)
        \/ EncodeBucket(t)
        \/ EncodeMember(t)
        \/ CloseFile(t)
        \/ GetStudents(t)
        \/ GetRecords(t)
        \/ SummaryStudent(t)
        \/ SummaryTotal(t)
        \/ SummaryDate(t)
        \/ SummaryGet(t)

Spec == Init /\ [][Next]_vars

\* a client that waits for each response before it sends the next request,
\* from a first start
NextSerial ==
    \/ DispatchSerial(1)
    \/ ValidateAdd(1)
    \/ ValidateMark(1)
    \/ AddToRoster(1)
    \/ TestBucket(1)
    \/ NewBucket(1)
    \/ SetStatus(1)
    \/ OpenFile(1)
    \/ ListStudents(1)
    \/ Encode(1)
    \/ EncodeRecords(1)
    \/ EncodeDate(1)
    \/ EncodeBucket(1)
    \/ EncodeMember(1)
    \/ CloseFile(1)
    \/ GetStudents(1)
    \/ GetRecords(1)
    \/ SummaryStudent(1)
    \/ SummaryTotal(1)
    \/ SummaryDate(1)
    \/ SummaryGet(1)
    \/ LoadFresh(1)

SpecSerial == InitEmpty /\ [][NextSerial]_vars

\* ------------------------------------------------------------------ claims
IsPost(r) == r.op \in {"add_student", "mark_attendance"}

AllWhitespace(chars) == \A i \in DOMAIN chars : chars[i] \in Whitespace

NoDuplicates(l) == \A i, j \in DOMAIN l : l[i] = l[j] => i = j

StoreUnchanged == students' = students /\ records' = records /\ file' = file

\* thread t evaluates the checks of its request in this step
Checks(t, op) == pc[t] = "validate" /\ pc'[t] # "validate" /\ req[t].op = op

\* thread t has returned a failure with this message, without save_to_file
Rejected(t, msg) ==
    /\ pc'[t] = "done"
    /\ loc'[t].success = FALSE
    /\ loc'[t].message = msg
    /\ loc'[t].saved = FALSE

\* C1: an add_student request whose trimmed name is in the roster when the
\* handler checks it fails with the already-exists message, and the handler
\* ends there with the roster, the records and the file as they were; no
\* student list (file or get_students) ever holds a name twice.
C1_DuplicateAddRejected ==
    /\ [][ \A t \in Threads :
            (/\ Checks(t, "add_student")
             /\ req[t].name.kind = "str"
             /\ strip(req[t].name.val) \in students)
            => (Rejected(t, MsgExists) /\ StoreUnchanged) ]_vars
    /\ [](file.state = "doc" => NoDuplicates(file.students))
    /\ [](\A t \in Threads :
            (pc[t] = "done" /\ req[t].op = "get_students" /\ loc[t].success)
                => NoDuplicates(loc[t].result))

C1_Witness ==
    \E t \in Threads :
        /\ pc[t] = "done"
        /\ req[t].op = "add_student"
        /\ req[t].name = StrV(<<13, 65, 32>>)
        /\ loc[t].message = MsgExists
        /\ NameA \in students
        /\ file.state = "doc"

\* C2: an add_student request whose name is missing, empty or only
\* whitespace fails with the empty-name message; the handler ends at the
\* check, so save_to_file is not called and the roster, the records and the
\* file are as they were.
C2_EmptyAddRejected ==
    [][ \A t \in Threads :
         (/\ Checks(t, "add_student")
          /\ req[t].name.kind \in {"str", "missing"}
          /\ AllWhitespace(req[t].name.val))
         => (Rejected(t, MsgEmpty) /\ StoreUnchanged) ]_vars

C2_Witness ==
    \E t \in Threads :
        /\ pc[t] = "done"
        /\ req[t].op = "add_student"
        /\ req[t].name = StrV(<<9, 160>>)
        /\ loc[t].message = MsgEmpty
        /\ loc[t].saved = FALSE
        /\ students # {}

\* C3: a mark_attendance request naming a non-empty student that is not in
\* the roster when the handler checks it fails with the not-found message,
\* whatever the date and the status; the handler ends at the check, so the
\* records (no new date bucket) and the file are as they were.
C3_UnknownStudentRejected ==
    [][ \A t \in Threads :
         (/\ Checks(t, "mark_attendance")
          /\ req[t].name.kind = "str"
          /\ ~AllWhitespace(req[t].name.val)
          /\ strip(req[t].name.val) \notin students)
         => (Rejected(t, MsgNotFound) /\ StoreUnchanged) ]_vars

C3_Witness ==
    \E t \in Threads :
        /\ pc[t] = "done"
        /\ req[t].op = "mark_attendance"
        /\ loc[t].message = MsgNotFound
        /\ req[t].name = StrV(NameB)
        /\ req[t].status.kind = "missing"
        /\ req[t].date.kind = "int"
        /\ students # {}

\* the status of the request is outside {"present", "absent"}
BadStatus(r) == r.status.kind = "str" /\ r.status.val \notin {StatusPresent, StatusAbsent}

\* C4 as stated: a mark_attendance request with a status outside
\* {"present", "absent"} fails with the invalid-status message for every
\* student argument, and never changes the records.
C4_AlwaysInvalidStatus ==
    [][ \A t \in Threads :
         (Checks(t, "mark_attendance") /\ BadStatus(req[t]))
         => (/\ pc'[t] = "done"
             /\ loc'[t].success = FALSE
             /\ loc'[t].message = MsgStatus
             /\ records' = records) ]_vars

\* C4 amended: such a request always fails at the checks and changes
\* nothing; the message is the invalid-status one when the student is a
\* non-empty name of the roster, and otherwise the message of the student
\* check that comes first (error for a non-string, empty-name, not-found).
C4_InvalidStatusAfterStudentChecks ==
    [][ \A t \in Threads :
         (Checks(t, "mark_attendance") /\ BadStatus(req[t]))
         => (/\ StoreUnchanged
             /\ Rejected(t, IF req[t].name.kind = "int" THEN MsgError
                            ELSE IF AllWhitespace(req[t].name.val) THEN MsgEmpty
                            ELSE IF strip(req[t].name.val) \notin students THEN MsgNotFound
                            ELSE MsgStatus)) ]_vars

C4_Witness ==
    \E t \in Threads :
        /\ pc[t] = "done"
        /\ req[t].op = "mark_attendance"
        /\ BadStatus(req[t])
        /\ loc[t].message = MsgStatus
        /\ strip(req[t].name.val) \in students

\* no request is in service
Quiescent == \A t \in Threads : Free(t)

\* two "records" objects with the same dates in the same order and equal
\* buckets
SameRecords(a, b) ==
    /\ Len(a) = Len(b)
    /\ \A i \in DOMAIN a : a[i].date = b[i].date /\ MapOf(a[i].marks) = MapOf(b[i].marks)

\* the file holds the document of the store in memory
FileIsStore ==
    \/ file.state = "absent" /\ students = {} /\ records = <<>>
    \/ /\ file.state = "doc"
       /\ Range(file.students) = students
       /\ SameRecords(file.records, DumpRecords(records))

\* C5: once a mutating request has returned, by success or by failure, the
\* update is in memory and in the file or in neither: no state between
\* requests has an update in memory that the file lacks, or a truncated or
\* partial file.
C5_AllOrNothing == Quiescent => FileIsStore

\* the document in the file, read back
FileStudents == Range(file.students)
FileRecords == AsMap(LoadRecords(file.records))

\* C6: whenever a mutating request of a sequential client has returned
\* success, the file's students (as a set) equal the roster and the file's
\* records equal the records.
C6_FileEqualsMemoryOnSuccess ==
    (pc[1] = "done" /\ IsPost(req[1]) /\ loc[1].success)
        => (/\ file.state = "doc"
            /\ FileStudents = students
            /\ FileRecords = AsMap(records))

\* the file holds what save_to_file writes for the current store
IsSaveOf(f, studs, d) ==
    /\ f.state = "doc"
    /\ Range(f.students) = studs
    /\ Len(f.students) = Cardinality(studs)
    /\ SameRecords(f.records, DumpRecords(d))

\* C7: loading a file that save_to_file wrote for the current store yields an
\* equal roster and an equal records mapping; loading an absent file yields
\* an empty store.
C7_RoundTrip ==
    (pc[1] = "done" /\ req[1].op = "load") =>
        /\ file.state = "absent" =>
              (/\ loc[1].success
               /\ loc[1].result.students = {}
               /\ loc[1].result.records = <<>>)
        /\ IsSaveOf(file, students, records) =>
              (/\ loc[1].success
               /\ loc[1].result.students = students
               /\ AsMap(loc[1].result.records) = AsMap(records))

\* C8: without any I/O failure, once the requests served concurrently have
\* all returned, no successful mark is missing from the records and the file
\* holds the complete document of the store in memory.
C8_NoLostUpdate ==
    (Quiescent /\ failures = 0)
        => (/\ \A p \in DOMAIN marked :
                  /\ HasKey(records, p[1])
                  /\ HasStudent(Lookup(records, p[1]), p[2])
            /\ FileIsStore)

\* C9: get_records of a sequential client succeeds and returns exactly what
\* the successful mark_attendance calls wrote (dates compared as the client
\* reads them, as text): every (date, student) entry it holds was marked with
\* that status, every marked pair is in it, and it holds no empty date bucket.
C9_RecordsAreSuccessfulMarks ==
    (pc[1] = "done" /\ req[1].op = "get_records") =>
        /\ loc[1].success
        /\ LET res == loc[1].result IN
           /\ \A k \in DOMAIN res :
                 /\ DOMAIN res[k] # {}
                 /\ \A s \in DOMAIN res[k] :
                       \E p \in DOMAIN marked :
                          JsonKey(p[1]) = k /\ p[2] = s /\ marked[p] = res[k][s]
           /\ \A p \in DOMAIN marked :
                 /\ JsonKey(p[1]) \in DOMAIN res
                 /\ p[2] \in DOMAIN res[JsonKey(p[1])]

\* ------------------------------------------------- get_summary on any store
\* the i-th date of a store
DayKey(i) == StrV(<<48 + i>>)

\* the non-empty date buckets that mark_attendance can build for a roster
\* (one insertion order for each set of students)
Buckets(studs) ==
    UNION { { [i \in DOMAIN l |-> [student |-> l[i], status |-> st[i]]] :
                st \in [DOMAIN l -> {StatusPresent, StatusAbsent}] } :
            l \in { CHOOSE x \in ListsOf(D) : TRUE : D \in (SUBSET studs) \ {{}} } }

\* the records of up to MaxDays dates over a roster
StoresOf(studs) ==
    UNION { { [i \in 1..n |-> [date |-> DayKey(i), marks |-> f[i]]] :
                f \in [1..n -> Buckets(studs)] } : n \in 0..MaxDays }

\* the history of marks that built a store
MarkedOf(d) ==
    [p \in UNION { { <<d[i].date, s>> : s \in DOMAIN MapOf(d[i].marks) } : i \in DOMAIN d }
        |-> StatusOf(Lookup(d, p[1]), p[2])]

\* a tracker that holds any such store, saved
InitSummary ==
    /\ students \in SUBSET {NameA, NameB}
    /\ records \in StoresOf(students)
    /\ file = json_dump(CHOOSE lst \in ListsOf(students) : TRUE, records)
    /\ marked = MarkedOf(records)
    /\ failures = 0
    /\ nreq = 0
    /\ pc = [t \in Threads |-> "idle"]
    /\ req = [t \in Threads |-> NoRequest]
    /\ loc = [t \in Threads |-> NoLocals]

\* GET /get_summary, one request at a time
NextSummary ==
    \/ DispatchOf(1, {Request("get_summary", Missing, Missing, Missing)}, 1)
    \/ SummaryStudent(1)
    \/ SummaryTotal(1)
    \/ SummaryDate(1)
    \/ SummaryGet(1)

SpecSummary == InitSummary /\ [][NextSummary]_vars

\* what the claim counts, from the records as a mapping
PresentDates(s) ==
    { k \in Keys(records) : IsPresent(Lookup(records, k), s) }

Abs(x) == IF x < 0 THEN -x ELSE x

SummaryReturned == pc[1] = "done" /\ req[1].op = "get_summary"

SummaryCounts(r) ==
    /\ DOMAIN r = students
    /\ \A s \in students :
          /\ r[s].present = Cardinality(PresentDates(s))
          /\ r[s].total = Cardinality(Keys(records))
          /\ r[s].present <= r[s].total
          /\ r[s].total = 0 => r[s].percentage = 0

\* C10 as stated: get_summary has an entry for exactly the roster, with
\* present = the dates marked present, total = all dates of the records,
\* percentage 0 without dates and otherwise exactly present / total * 100
\* (percentages are held in hundredths: 10000 is 100.0).
C10_SummaryExactPercentage ==
    SummaryReturned =>
        /\ loc[1].success
        /\ SummaryCounts(loc[1].result)
        /\ \A s \in students :
              loc[1].result[s].total > 0 =>
                  loc[1].result[s].percentage * loc[1].result[s].total
                      = loc[1].result[s].present * 10000

\* C10 amended: the same, with the percentage a two-decimal value nearest
\* to present / total * 100.
C10_SummaryRoundedPercentage ==
    SummaryReturned =>
        /\ loc[1].success
        /\ SummaryCounts(loc[1].result)
        /\ \A s \in students :
              loc[1].result[s].total > 0 =>
                  2 * Abs(loc[1].result[s].percentage * loc[1].result[s].total
                            - loc[1].result[s].present * 10000)
                      <= loc[1].result[s].total

\* the example of the claim: A 2/2/100.0 and B 1/2/50.0
C10_Witness ==
    /\ SummaryReturned
    /\ students = {NameA, NameB}
    /\ AsMap(records) = (DayKey(1) :> (NameA :> StatusPresent)
                         @@ DayKey(2) :> (NameA :> StatusPresent @@ NameB :> StatusPresent))
    /\ loc[1].result[NameA] = [percentage |-> 10000, present |-> 2, total |-> 2]
    /\ loc[1].result[NameB] = [percentage |-> 5000, present |-> 1, total |-> 2]

====
